---- MODULE Spec2Model ----
(***************************************************************************)
(* Model of the youtube-comments-backend relay: the comment normalizer     *)
(* (preprocessComments), the response formatter (formatSummary) and the    *)
(* POST /summarize request handler, in its two source variants             *)
(* (src/server.js and src/unnamed/part_000).                               *)
(*                                                                         *)
(* A JavaScript string is a sequence of one-character strings.  A JSON     *)
(* value that can sit in the comments array is a record [t, s, n]:         *)
(* t its type, s its characters (strings), n its number (numbers).         *)
(***************************************************************************)
EXTENDS Integers, Sequences, FiniteSets, TLC

\* ------------------------------------------------------------ JS values

JStr(s) == [t |-> "str", s |-> s, n |-> 0]
JNum(k) == [t |-> "num", s |-> <<>>, n |-> k]
JNull == [t |-> "null", s |-> <<>>, n |-> 0]
JTrue == [t |-> "bool", s |-> <<>>, n |-> 1]

\* JavaScript truthiness, as `comment && ...` and `!comments` test it.
Truthy(v) ==
    \/ v.t = "str" /\ v.s # <<>>
    \/ v.t = "num" /\ v.n # 0
    \/ v.t = "bool" /\ v.n # 0
    \/ v.t \in {"obj", "arr"}

\* White space as String.prototype.trim and the regex class \s take it:
\* the ASCII members that occur in the inputs below.
Whitespace == {" ", "\t", "\n", "\r"}

UpperCase == <<"A", "B", "C", "D", "E", "F", "G", "H", "I", "J", "K", "L", "M",
               "N", "O", "P", "Q", "R", "S", "T", "U", "V", "W", "X", "Y", "Z">>
LowerCase == <<"a", "b", "c", "d", "e", "f", "g", "h", "i", "j", "k", "l", "m",
               "n", "o", "p", "q", "r", "s", "t", "u", "v", "w", "x", "y", "z">>

UpperLetters == {UpperCase[i] : i \in 1..Len(UpperCase)}

\* The regex class [A-Z]
IsUpper(c) == c \in UpperLetters

LowerOf ==
    [c \in UpperLetters |->
        LowerCase[CHOOSE i \in 1..Len(UpperCase) : UpperCase[i] = c]]

\* The case folding of the regex flag /i on ASCII letters.
ToLower(c) == IF IsUpper(c) THEN LowerOf[c] ELSE c

LowerStr(s) == [i \in 1..Len(s) |-> ToLower(s[i])]

SetMin(S) == CHOOSE x \in S : \A y \in S : x <= y
SetMax(S) == CHOOSE x \in S : \A y \in S : x >= y
Min(a, b) == IF a <= b THEN a ELSE b

\* s.trim(), also s.replace(/^\s+|\s+$/g, '')
Trim(s) ==
    LET solid == {i \in 1..Len(s) : s[i] \notin Whitespace}
    IN  IF solid = {} THEN <<>> ELSE SubSeq(s, SetMin(solid), SetMax(solid))

\* s.replace(/\s+/g, ' '): every maximal run of white space becomes one space.
CollapseWhitespace(s) ==
    LET idx == [i \in 1..Len(s) |-> i]
        Keep(i) == s[i] \notin Whitespace \/ i = 1 \/ s[i - 1] \notin Whitespace
        kept == SelectSeq(idx, Keep)
    IN  [j \in 1..Len(kept) |->
            IF s[kept[j]] \in Whitespace THEN " " ELSE s[kept[j]]]

\* ------------------------------------------------------ preprocessComments

\* The whole-string, case-insensitive denylist /^(first|second|third|early|late)$/i
Denylist == { <<"f", "i", "r", "s", "t">>, <<"s", "e", "c", "o", "n", "d">>,
              <<"t", "h", "i", "r", "d">>, <<"e", "a", "r", "l", "y">>,
              <<"l", "a", "t", "e">> }

MatchesDenylist(s) == LowerStr(s) \in Denylist

\* .slice(0, 120)
SliceLimit == 120

\* comment.trim().length > 5
MinTrimmedLength == 5

\* The first filter's callback: comment && comment.trim().length > 5
\* (applied only to strings and falsy values; see ThrowsTypeError).
LongEnough(c) == Truthy(c) /\ Len(Trim(c.s)) > MinTrimmedLength

\* The map callback: comment.trim().replace(/\s+/g, ' ')
CleanComment(c) == JStr(CollapseWhitespace(Trim(c.s)))

\* The second filter's callback.
NotDenylisted(c) == ~MatchesDenylist(c.s)

\* A truthy element that is no string has no trim method: the first
\* filter's callback throws a TypeError.
ThrowsTypeError(comments) ==
    \E i \in 1..Len(comments) : Truthy(comments[i]) /\ comments[i].t # "str"

Returned(v) == [threw |-> FALSE, value |-> v]
Thrown == [threw |-> TRUE, value |-> <<>>]

\* The same pipeline with the slice taken before the denylist filter.
preprocessCommentsSliceFirst(comments) ==
    IF ThrowsTypeError(comments) THEN Thrown
    ELSE LET kept == SelectSeq(comments, LongEnough)
             cleaned == [i \in 1..Len(kept) |-> CleanComment(kept[i])]
             capped == SubSeq(cleaned, 1, Min(SliceLimit, Len(cleaned)))
         IN  Returned(SelectSeq(capped, NotDenylisted))

\* filter, map, filter, slice, in the source's order.
preprocessComments(comments) ==
    IF ThrowsTypeError(comments) THEN Thrown
    ELSE LET kept == SelectSeq(comments, LongEnough)
             cleaned == [i \in 1..Len(kept) |-> CleanComment(kept[i])]
             allowed == SelectSeq(cleaned, NotDenylisted)
         IN  Returned(SubSeq(allowed, 1, Min(SliceLimit, Len(allowed))))

\* ------------------------------------------------------------ input data

Digits == <<"0", "1", "2", "3", "4", "5", "6", "7", "8", "9">>

\* The i-th of a family of pairwise distinct comments that pass every filter:
\* "cmt000", "cmt001", ...
DistinctComment(i) ==
    JStr(<<"c", "m", "t", Digits[((i \div 100) % 10) + 1],
           Digits[((i \div 10) % 10) + 1], Digits[(i % 10) + 1]>>)

DistinctComments(n) == [i \in 1..n |-> DistinctComment(i)]

\* Sequences over S of length at most n.
SeqUpTo(S, n) == UNION { [1..k -> S] : k \in 0..n }

\* Elements a caller can put into the comments array.
NiceVideo == JStr(<<"n", "i", "c", "e", " ", "v", "i", "d", "e", "o">>)
PaddedGreat == JStr(<<" ", "g", "r", "e", "a", "t", " ", "\t", "o", "n", "e", "\n">>)
SparseAB == JStr(<<"a", " ", " ", " ", " ", "b">>)
ShortOk == JStr(<<"o", "k">>)
FiveChars == JStr(<<"h", "e", "l", "l", "o">>)
SecondMixed == JStr(<<"S", "e", "c", "o", "n", "D">>)
ThirdPadded == JStr(<<" ", "t", "h", "i", "r", "d", " ">>)
EmptyString == JStr(<<>>)


\* --------------------------------------------------------- formatSummary

\* .replace(/\*\*(.*?)\*\*/g, '**$1**'): every match "**x**" is replaced by
\* "**" x "**", the text it matched, so the string comes back unchanged.
PreserveMarkdown(s) == s

\* .replace(/\n{3,}/g, '\n\n'): a run of three or more newlines keeps its
\* first two.
NormalizeSpacing(s) ==
    LET idx == [i \in 1..Len(s) |-> i]
        Keep(i) == ~(s[i] = "\n" /\ i >= 3 /\ s[i - 1] = "\n" /\ s[i - 2] = "\n")
        kept == SelectSeq(idx, Keep)
    IN  [j \in 1..Len(kept) |-> s[kept[j]]]

SentenceEnd == {".", "!", "?"}

\* The index of the first character after position p that is not white
\* space, or 0 when only white space follows.
NextSolid(s, p) ==
    LET later == {q \in (p + 1)..Len(s) : s[q] \notin Whitespace}
    IN  IF later = {} THEN 0 ELSE SetMin(later)

\* .replace(/([.!?])\s*([A-Z])/g, '$1 $2'), scanning from position i:
\* the leftmost match is rewritten and the scan goes on after it.
RECURSIVE FixPunctuationFrom(_, _)
FixPunctuationFrom(s, i) ==
    IF i > Len(s) THEN <<>>
    ELSE LET q == NextSolid(s, i)
         IN  IF s[i] \in SentenceEnd /\ q # 0 /\ IsUpper(s[q])
             THEN <<s[i], " ", s[q]>> \o FixPunctuationFrom(s, q + 1)
             ELSE <<s[i]>> \o FixPunctuationFrom(s, i + 1)

FixPunctuationSpacing(s) == FixPunctuationFrom(s, 1)

\* .split('\n'): the pieces between newlines, from position i on.
RECURSIVE SplitLinesFrom(_, _)
SplitLinesFrom(s, i) ==
    LET breaks == {q \in i..Len(s) : s[q] = "\n"}
    IN  IF breaks = {} THEN <<SubSeq(s, i, Len(s))>>
        ELSE <<SubSeq(s, i, SetMin(breaks) - 1)>>
                 \o SplitLinesFrom(s, SetMin(breaks) + 1)

SplitLines(s) == SplitLinesFrom(s, 1)

NonEmptyLine(line) == Len(line) > 0

\* .join('\n\n')
RECURSIVE JoinBlankLine(_)
JoinBlankLine(lines) ==
    IF Len(lines) = 0 THEN <<>>
    ELSE IF Len(lines) = 1 THEN lines[1]
    ELSE lines[1] \o <<"\n", "\n">> \o JoinBlankLine(Tail(lines))

\* .split('\n').map(line => line.trim()).filter(line => line.length > 0)
\*    .join('\n\n')
Reflow(s) ==
    LET lines == SplitLines(s)
        trimmed == [i \in 1..Len(lines) |-> Trim(lines[i])]
    IN  JoinBlankLine(SelectSeq(trimmed, NonEmptyLine))

\* formatSummary of src/server.js (with the punctuation step) and of
\* src/unnamed/part_000 (without it).
formatSummary(variant, rawSummary) ==
    LET spaced == Trim(NormalizeSpacing(PreserveMarkdown(rawSummary)))
    IN  IF variant = "server"
        THEN Reflow(FixPunctuationSpacing(spaced))
        ELSE Reflow(spaced)


\* ------------------------------------------------- POST /summarize: data

\* The comments field of req.body: a JSON value [t, s, n, a], a its
\* elements when it is an array; t = "undef" when the field is absent.
Field(t, s, n, a) == [t |-> t, s |-> s, n |-> n, a |-> a]
AbsentField == Field("undef", <<>>, 0, <<>>)
NullField == Field("null", <<>>, 0, <<>>)
StringField == Field("str", <<"n", "i", "c", "e", " ", "v", "i", "d", "e", "o">>, 0, <<>>)
EmptyStringField == Field("str", <<>>, 0, <<>>)
NumberField == Field("num", <<>>, 7, <<>>)
ObjectField == Field("obj", <<>>, 0, <<>>)
ArrayField(a) == Field("arr", <<>>, 0, a)

\* The body of an upstream reply (response.data), by how far the path
\* data.candidates[0].content.parts[0].text exists, and the value found there.
Reply(shape, text) == [kind |-> "reply", shape |-> shape, text |-> text]
CallError == [kind |-> "error", shape |-> "none", text |-> JNull]
CallTimeout == [kind |-> "timeout", shape |-> "none", text |-> JNull]
NotCalled == [kind |-> "none", shape |-> "none", text |-> JNull]

MalformedShapes ==
    {"nullData", "noCandidates", "emptyCandidates", "noContent", "noParts",
     "emptyParts", "noText"}

\* A response as sent: the status, the keys of the JSON body and their values.
NoMetadata ==
    [commentsProcessed |-> 0, originalCount |-> 0, analysisType |-> "",
     timestamp |-> 0, requestId |-> 0]

ErrorResponse(status, message) ==
    [status |-> status, keys |-> {"error"}, error |-> message,
     summary |-> <<>>, metadata |-> NoMetadata, requestId |-> 0]

\* The error-handling middleware's body: { error, requestId: Date.now() }.
MiddlewareResponse(time) ==
    [status |-> 500, keys |-> {"error", "requestId"},
     error |-> "Internal server error",
     summary |-> <<>>, metadata |-> NoMetadata, requestId |-> time]

\* ------------------------------------------------ POST /summarize: state

VARIABLES
    variant,            \* which source file serves the route
    comments,           \* req.body.comments
    pc,                 \* where the handler's async function stands
    processedComments,  \* const processedComments
    requestId,          \* const requestId, sent as x-request-id
    upstreamCalls,      \* number of axios.post calls issued
    upstream,           \* what the awaited call produced
    responses,          \* the responses sent on res, in order
    crashed,            \* the process ended on an unhandled rejection
    now,                \* Date.now()
    xs, ys, zs, step    \* preprocessComments run on its own: input, first and
                        \* second result, number of runs

handlerVars ==
    <<variant, comments, pc, processedComments, requestId, upstreamCalls,
      upstream, responses, crashed, now>>
normalizerVars == <<xs, ys, zs, step>>
vars == <<handlerVars, normalizerVars>>

\* if (comments.length > 200)
MaxComments == 200

\* if (processedComments.length < 3)
MinMeaningful == 3

\* processedComments.length >= 20 picks the detailed prompt (server.js)
DetailedThreshold == 20

\* comments.length of a value that has one (arrays, strings).
LengthOf(c) == IF c.t = "arr" THEN Len(c.a) ELSE Len(c.s)

\* comments.length === 0 (undefined === 0 is false)
LengthIsZero(c) == c.t \in {"arr", "str"} /\ LengthOf(c) = 0

\* The validation without its Array.isArray test.
InvalidInputNoArrayTest(c) == ~Truthy(c) \/ LengthIsZero(c)

\* !comments || !Array.isArray(comments) || comments.length === 0
InvalidInput(c) == ~Truthy(c) \/ c.t # "arr" \/ LengthIsZero(c)

\* comments.length > 200 (undefined > 200 is false)
TooMany(c) == c.t \in {"arr", "str"} /\ LengthOf(c) > MaxComments

\* preprocessComments(comments): a value that is no array has no filter
\* method, and the call throws.
PreprocessField(c) == IF c.t = "arr" THEN preprocessComments(c.a) ELSE Thrown

\* 'detailed' / 'simple' by size in server.js, fixed in part_000.
AnalysisType(v, processed) ==
    IF v = "server"
    THEN IF Len(processed) >= DetailedThreshold THEN "detailed" ELSE "simple"
    ELSE "markdown-structured"

\* The text test without its emptiness half.
LacksTextField(r) == r.shape # "text"

\* !response.data?.candidates?.[0]?.content?.parts?.[0]?.text
LacksText(r) == r.shape # "text" \/ ~Truthy(r.text)


\* The threshold taken one too low.
TooFewOffByOne(processed) == Len(processed) < MinMeaningful - 1

\* processedComments.length < 3
TooFew(processed) == Len(processed) < MinMeaningful

\* responseData with originalCount taken from the processed comments.
SuccessResponseCountsProcessed(v, c, processed, rid, raw, time) ==
    [status |-> 200, keys |-> {"summary", "metadata"}, error |-> "",
     summary |-> formatSummary(v, raw),
     metadata |-> [commentsProcessed |-> Len(processed),
                   originalCount |-> Len(processed),
                   analysisType |-> AnalysisType(v, processed),
                   timestamp |-> time, requestId |-> rid],
     requestId |-> 0]

\* responseData, sent by res.json with status 200.
SuccessResponse(v, c, processed, rid, raw, time) ==
    [status |-> 200, keys |-> {"summary", "metadata"}, error |-> "",
     summary |-> formatSummary(v, raw),
     metadata |-> [commentsProcessed |-> Len(processed),
                   originalCount |-> LengthOf(c),
                   analysisType |-> AnalysisType(v, processed),
                   timestamp |-> time, requestId |-> rid],
     requestId |-> 0]

\* ---------------------------------------------- POST /summarize: actions

Send(r) == responses' = Append(responses, r)

\* return res.status(400).json({ error }) before anything was computed
Reject400(message) ==
    /\ Send(ErrorResponse(400, message))
    /\ pc' = "done"
    /\ UNCHANGED <<processedComments, requestId, upstreamCalls>>

\* The handler from its entry to the await of axios.post: validation,
\* normalization, the size test, the prompt choice and the call.
HandleSummarize ==
    /\ pc = "received"
    /\ IF InvalidInput(comments)
       THEN Reject400("Invalid input: comments array is required and must not be empty")
       ELSE IF TooMany(comments)
       THEN Reject400("Too many comments: maximum 200 comments allowed per request")
       ELSE LET r == PreprocessField(comments)
            IN  IF r.threw
                THEN /\ pc' = "rejected"
                     /\ UNCHANGED <<processedComments, requestId, upstreamCalls,
                                    responses>>
                ELSE IF TooFew(r.value)
                THEN /\ Send(ErrorResponse(400,
                          "Insufficient comments: at least 3 meaningful comments required for analysis"))
                     /\ pc' = "done"
                     /\ processedComments' = r.value
                     /\ UNCHANGED <<requestId, upstreamCalls>>
                ELSE /\ processedComments' = r.value
                     /\ requestId' = now
                     /\ upstreamCalls' = upstreamCalls + 1
                     /\ pc' = "awaiting"
                     /\ UNCHANGED responses
    /\ UNCHANGED <<variant, comments, upstream, crashed, now, normalizerVars>>

\* Longest time, in clock ticks, the upstream call takes.
MaxDelay == 1

\* Raw texts the upstream model may generate.
TextPool ==
    { <<"H", "e", "l", "l", "o">>,
      <<" ", "a", "\n", "\n", "\n", "\n", "b", " ">>,
      <<"H", "i", ".", "Y", "o", "!", " ", " ", "o", "k">>,
      <<"A", ".", "\n", " ", "B", "\n", "\n", "c">>,
      <<"*", "*", "b", "*", "*", " ", "\n", " ", "c">>,
      <<" ", "\n", " ">> }

UpstreamOutcomes ==
    {CallError, CallTimeout}
        \cup {Reply(shape, JNull) : shape \in MalformedShapes}
        \cup {Reply("text", JStr(t)) : t \in TextPool}
        \cup {Reply("text", t) : t \in {EmptyString, JNull, JNum(0), JNum(7)}}

\* The awaited axios.post settles: a 2xx reply with some body, or a
\* rejection (network failure, non-2xx status, the 30 s timeout).
UpstreamSettles ==
    /\ pc = "awaiting"
    /\ \E o \in UpstreamOutcomes, d \in 0..MaxDelay :
          /\ upstream' = o
          /\ now' = now + d
    /\ pc' = "resumed"
    /\ UNCHANGED <<variant, comments, processedComments, requestId,
                   upstreamCalls, responses, crashed, normalizerVars>>

\* A failure that is retried: the call is issued again.
OnCallFailureRetry ==
    /\ pc' = "awaiting"
    /\ upstreamCalls' = upstreamCalls + 1
    /\ UNCHANGED responses

\* An exception at or after the await: part_000 catches it and answers 500;
\* server.js has no try block, so the async function's promise is rejected.
OnCallFailure ==
    /\ IF variant = "part_000"
       THEN /\ Send(ErrorResponse(500, "Failed to generate summary"))
            /\ pc' = "done"
       ELSE /\ pc' = "rejected"
            /\ UNCHANGED responses
    /\ UNCHANGED upstreamCalls

\* The handler after the await: the reply's validation, formatSummary and
\* the 200 response.  A text that is no string has no replace method, and
\* formatSummary throws.
Resume ==
    /\ pc = "resumed"
    /\ IF upstream.kind \in {"error", "timeout"}
       THEN OnCallFailure
       ELSE IF LacksText(upstream)
       THEN /\ Send(ErrorResponse(502, "Invalid response from AI service"))
            /\ pc' = "done"
            /\ UNCHANGED upstreamCalls
       ELSE IF upstream.text.t # "str"
       THEN OnCallFailure
       ELSE /\ Send(SuccessResponse(variant, comments, processedComments,
                                    requestId, upstream.text.s, now))
            /\ pc' = "done"
            /\ UNCHANGED upstreamCalls
    /\ UNCHANGED <<variant, comments, processedComments, requestId, upstream,
                   crashed, now, normalizerVars>>

\* The rejected promise of the async handler under a router that passes
\* rejections to next(err) (Express 5): the error-handling middleware
\* answers 500 with a fresh requestId.
RejectionForwarded ==
    /\ pc = "rejected"
    /\ Send(MiddlewareResponse(now))
    /\ pc' = "done"
    /\ UNCHANGED <<variant, comments, processedComments, requestId,
                   upstreamCalls, upstream, crashed, now, normalizerVars>>

\* The rejected promise under a router that drops the handler's return
\* value (Express 4): nothing handles it, no response is sent, and Node
\* either ends the process (the default since Node 15) or only warns.
RejectionUnhandled ==
    /\ pc = "rejected"
    /\ pc' = "unhandled"
    /\ crashed' \in BOOLEAN
    /\ UNCHANGED <<variant, comments, processedComments, requestId,
                   upstreamCalls, upstream, responses, now, normalizerVars>>

\* ------------------------------------------------------- specifications

\* Longest caller-written part of a request's comments array.
MaxItems == 2

\* Longest caller-written part of the normalizer's input.
MaxPrefix == 2

HandlerPool == {NiceVideo, SparseAB, SecondMixed, ShortOk, JNull, JNum(7)}
HandlerFills == {0, 1, 2, 3}
HandlerLongFills == {199, 200, 201}

NormalizerPool ==
    {NiceVideo, PaddedGreat, SparseAB, FiveChars, SecondMixed, ThirdPadded,
     EmptyString, JNull, JTrue}
NormalizerFills == {0, 2, 119, 120, 121, 500}

RequestFields ==
    {AbsentField, NullField, StringField, EmptyStringField, NumberField,
     ObjectField}
        \cup {ArrayField(head \o DistinctComments(n)) :
                 head \in SeqUpTo(HandlerPool, MaxItems), n \in HandlerFills}
        \cup {ArrayField(head \o DistinctComments(n)) :
                 head \in SeqUpTo(HandlerPool, 1), n \in HandlerLongFills}

NormalizerInputs ==
    {head \o DistinctComments(n) :
        head \in SeqUpTo(NormalizerPool, MaxPrefix), n \in NormalizerFills}
        \cup {DistinctComments(n) \o tail :
                 tail \in SeqUpTo(NormalizerPool, 1), n \in NormalizerFills}

HandlerIdle ==
    /\ variant = "none"
    /\ comments = AbsentField
    /\ pc = "idle"
    /\ processedComments = <<>>
    /\ requestId = 0
    /\ upstreamCalls = 0
    /\ upstream = NotCalled
    /\ responses = <<>>
    /\ crashed = FALSE
    /\ now = 1

NormalizerIdle ==
    /\ xs = <<>>
    /\ ys = Returned(<<>>)
    /\ zs = Returned(<<>>)
    /\ step = 0

\* One request has arrived at POST /summarize of either source file.
Init ==
    /\ variant \in {"server", "part_000"}
    /\ comments \in RequestFields
    /\ pc = "received"
    /\ processedComments = <<>>
    /\ requestId = 0
    /\ upstreamCalls = 0
    /\ upstream = NotCalled
    /\ responses = <<>>
    /\ crashed = FALSE
    /\ now = 1
    /\ NormalizerIdle

Next ==
    \/ HandleSummarize
    \/ UpstreamSettles
    \/ Resume
    \/ RejectionForwarded
    \/ RejectionUnhandled

Spec == Init /\ [][Next]_vars

\* preprocessComments applied to an input.
Normalize ==
    /\ step = 0
    /\ pc = "idle"
    /\ ys' = preprocessComments(xs)
    /\ step' = 1
    /\ UNCHANGED <<xs, zs, handlerVars>>

\* preprocessComments applied to its own output.
Renormalize ==
    /\ step = 1
    /\ ~ys.threw
    /\ zs' = preprocessComments(ys.value)
    /\ step' = 2
    /\ UNCHANGED <<xs, ys, handlerVars>>

NormalizerInit ==
    /\ HandlerIdle
    /\ xs \in NormalizerInputs
    /\ ys = Returned(<<>>)
    /\ zs = Returned(<<>>)
    /\ step = 0

NormalizerNext == Normalize \/ Renormalize

NormalizerSpec == NormalizerInit /\ [][NormalizerNext]_vars


\* ------------------------------------------------------------ properties

\* The handler's async function has run to its end for this request.
Finished == pc \in {"done", "unhandled"}

\* Exactly one response was sent, with this status and an error field.
AnsweredWithError(status) ==
    /\ Len(responses) = 1
    /\ responses[1].status = status
    /\ "error" \in responses[1].keys

\* C1: a request whose comments field is absent, no array or an empty array
\* is answered 400 with an error field once the handler has run, and the
\* upstream API is never called for it.
C1_InvalidCommentsRejected ==
    (comments.t # "arr" \/ Len(comments.a) = 0) =>
        /\ upstreamCalls = 0
        /\ pc # "received" => pc = "done" /\ AnsweredWithError(400)

C1_Witness ==
    /\ pc = "done"
    /\ comments \in {StringField, ArrayField(<<>>), AbsentField}
    /\ AnsweredWithError(400)

\* C2: every request ends with exactly one JSON response of status 200, 400,
\* 502 or 500, every response other than 200 carries an error field, and the
\* process does not crash.
C2_OneTerminalOutcome ==
    Finished =>
        /\ ~crashed
        /\ Len(responses) = 1
        /\ responses[1].status \in {200, 400, 502, 500}
        /\ responses[1].status # 200 => "error" \in responses[1].keys

\* C3: when the upstream call throws or times out, the handler answers 500
\* and the body holds the generic error field and nothing else.
C3_CallFailureAnswered500 ==
    Finished /\ upstream.kind \in {"error", "timeout"} =>
        /\ Len(responses) = 1
        /\ responses[1].status = 500
        /\ responses[1].keys = {"error"}

\* C4: preprocessComments is idempotent: run on its own output it returns
\* that output, element for element.
C4_Idempotent == step = 2 => zs = ys

\* C5: the output of preprocessComments holds no string more than once.
C5_NoRepeats ==
    step >= 1 /\ ~ys.threw =>
        \A i, j \in 1..Len(ys.value) : i # j => ys.value[i] # ys.value[j]

\* C6: a request with a non-empty array of at most 200 comments of which
\* fewer than 3 remain after preprocessComments is answered 400.
C6_TooFewRejected ==
    /\ pc # "received"
    /\ comments.t = "arr"
    /\ Len(comments.a) \in 1..200
    /\ LET cleaned == preprocessComments(comments.a)
       IN  ~cleaned.threw /\ Len(cleaned.value) < 3
    => pc = "done" /\ AnsweredWithError(400) /\ upstreamCalls = 0

C6_Witness ==
    /\ pc = "done"
    /\ comments.t = "arr"
    /\ Len(comments.a) = 3
    /\ Len(processedComments) = 2
    /\ AnsweredWithError(400)

\* C7: when the upstream reply has no text at candidates[0].content.parts[0]
\* (the path is missing, or the text is empty), the handler answers 502 with
\* an error field and no response ever holds a summary.
C7_MissingTextAnswered502 ==
    /\ upstream.kind = "reply"
    /\ upstream.shape \in MalformedShapes \/ upstream.text = EmptyString
    => /\ \A i \in 1..Len(responses) : "summary" \notin responses[i].keys
       /\ pc = "resumed" => responses = <<>>
       /\ pc # "resumed" => pc = "done" /\ AnsweredWithError(502)

C7_Witness ==
    /\ pc = "done"
    /\ upstream \in {Reply("text", EmptyString), Reply("emptyCandidates", JNull)}
    /\ AnsweredWithError(502)

\* C8: when the upstream reply carries a non-empty text T, the handler
\* answers 200 with summary = formatSummary(T), commentsProcessed = the length
\* of preprocessComments(comments), originalCount = the length of the
\* submitted array, a timestamp and the request id that was sent upstream.
C8_SuccessBody ==
    /\ Finished
    /\ upstream.kind = "reply"
    /\ upstream.shape = "text"
    /\ upstream.text.t = "str"
    /\ upstream.text.s # <<>>
    => /\ pc = "done"
       /\ Len(responses) = 1
       /\ responses[1].status = 200
       /\ responses[1].keys = {"summary", "metadata"}
       /\ responses[1].summary = formatSummary(variant, upstream.text.s)
       /\ responses[1].metadata.commentsProcessed
              = Len(preprocessComments(comments.a).value)
       /\ responses[1].metadata.originalCount = Len(comments.a)
       /\ responses[1].metadata.timestamp = now
       /\ responses[1].metadata.requestId = requestId

C8_Witness ==
    /\ pc = "done"
    /\ upstream = Reply("text", JStr(<<"H", "e", "l", "l", "o">>))
    /\ Len(responses) = 1
    /\ responses[1].status = 200
    /\ responses[1].summary = <<"H", "e", "l", "l", "o">>
    /\ responses[1].metadata.commentsProcessed = 3
    /\ responses[1].metadata.originalCount = 5

\* A comment that passes both filters of preprocessComments.
Survives(c) ==
    /\ c.t = "str"
    /\ Len(Trim(c.s)) > 5
    /\ LowerStr(CollapseWhitespace(Trim(c.s))) \notin Denylist

\* C9: the output of preprocessComments is the cleaned text of the first
\* min(120, k) comments that survive the filters, in their input order,
\* k being the number of survivors.
C9_CappedPrefix ==
    step >= 1 /\ ~ys.threw =>
        LET survivors == SelectSeq(xs, Survives)
            k == Len(survivors)
        IN  /\ Len(ys.value) = IF k < 120 THEN k ELSE 120
            /\ \A j \in 1..Len(ys.value) :
                  ys.value[j] = JStr(CollapseWhitespace(Trim(survivors[j].s)))

C9_Witness ==
    /\ step = 1
    /\ xs = DistinctComments(500)
    /\ Len(ys.value) = 120
    /\ ys.value[120] = DistinctComment(120)

\* C10: the upstream API is called at most once per request, and only for
\* an array of at most 200 comments of which at least 3 remain after
\* normalization; no response other than a 200 holds a summary.
C10_SingleCallNoPartial ==
    /\ upstreamCalls <= 1
    /\ upstreamCalls = 1 =>
          /\ comments.t = "arr"
          /\ Len(comments.a) \in 1..200
          /\ LET cleaned == preprocessComments(comments.a)
             IN  ~cleaned.threw /\ Len(cleaned.value) >= 3
    /\ \A i \in 1..Len(responses) :
          responses[i].status # 200 => "summary" \notin responses[i].keys

C10_Witness ==
    /\ pc = "done"
    /\ upstreamCalls = 1
    /\ upstream.kind \in {"error", "timeout"}
    /\ AnsweredWithError(500)

====
